---- MODULE Spec2Model ----
(***************************************************************************)
(* Localized content resolution and date formatting of zenith-cv.          *)
(*                                                                         *)
(*   src/src/utils/get-content.ts   getLocalizedEntry and the six named    *)
(*                                  resolvers built on it                  *)
(*   src/unnamed/part_006           isMidnightUtc, normalizeDateOnlyToLocal *)
(*                                  and formatDate                         *)
(*                                                                         *)
(* A render is one page-render invocation: it owns a RenderContext (or     *)
(* none, when the pipeline did not attach one) and runs one call at a      *)
(* time.  getLocalizedEntry is an async function: it is modelled as a      *)
(* step machine that suspends at each awaited getEntry, so that several    *)
(* renders interleave exactly at those points.                             *)
(***************************************************************************)
EXTENDS Integers, Sequences, FiniteSets, TLC

VARIABLES
    store,      \* content store: collection name -> set of slugs that have a record
    failing,    \* slugs whose lookup the store fails to load: getEntry throws on them
    tz,         \* host timezone: offset of local time from UTC, in minutes (east positive)
    live,       \* the renders that exist in this run
    ctx,        \* render -> the RenderContext attached to its render handle, or NoContext
    pc,         \* render -> position of its current call
    frame,      \* render -> the locals of its current call
    queries,    \* render -> the getEntry lookups its current call has issued, in order
    dateObj,    \* render -> time value held by the Date object handed to formatDate
    outcome     \* render -> what the current call returned or threw

vars == <<store, failing, tz, live, ctx, pc, frame, queries, dateObj, outcome>>

----------------------------------------------------------------------------
(* Bounds *)

MaxRenders == 2

Renders == 1..MaxRenders

----------------------------------------------------------------------------
(* Content collections and slugs *)

\* type LocalizableCollection
LocalizableCollection ==
    {"skills", "jobs", "achievements", "education", "favorites", "interests"}

\* Identifiers a caller passes.  The second one itself ends in "-es": the
\* localized slug of the first is the base slug of the second.
Ids == {"typescript", "typescript-es"}

\* `${id}-es`
LocalizedSlugOf(id) == id \o "-es"

Slugs == Ids \cup { LocalizedSlugOf(id) : id \in Ids }

Undefined == [kind |-> "undefined"]

\* A CollectionEntry: the record the store holds for (collection, slug).
Entry(collection, slug) == [kind |-> "entry", collection |-> collection, slug |-> slug]

\* getEntry(collection, slug) of astro:content: the record, or undefined.
GetEntry(collection, slug) ==
    IF slug \in store[collection] THEN Entry(collection, slug) ELSE Undefined

\* getEntry(collection, slug) throws instead of settling to a value.
LookupThrows(collection, slug) == slug \in failing

\* The error of a lookup the store could not serve
StoreUnavailable(collection, slug) ==
    [name |-> "StoreError", collection |-> collection, slug |-> slug]

\* Content stores of a run: one collection holds S1, every other holds S2.
Stores ==
    { [c \in LocalizableCollection |-> IF c = a THEN s1 ELSE s2] :
        a \in LocalizableCollection, s1 \in SUBSET Slugs, s2 \in SUBSET Slugs }

----------------------------------------------------------------------------
(* RenderContext *)

NoContext == [kind |-> "none"]

LocaleCodes == {"en", "es"}

PrimaryLocale == "en"

\* date-fns patterns, as token sequences
DateFormatOf(code) ==
    IF code = "es" THEN <<"dd", "/", "MM", "/", "yyyy">>
                   ELSE <<"MMM", " ", "d", ", ", "yyyy">>

RenderContext(code) ==
    [kind |-> "context", locale |-> [code |-> code], dateFormat |-> DateFormatOf(code)]

Contexts == { RenderContext(code) : code \in LocaleCodes }

ConfigurationError == [name |-> "ConfigurationError"]

\* getGlobalContext(astro): the context of this render handle; throws when
\* none was initialized.
GetGlobalContext(r) ==
    IF ctx[r] = NoContext
    THEN [threw |-> TRUE, error |-> ConfigurationError, value |-> NoContext]
    ELSE [threw |-> FALSE, error |-> ConfigurationError, value |-> ctx[r]]

----------------------------------------------------------------------------
(* Outcomes of a call *)

None == [kind |-> "none"]

Return(v) == [kind |-> "return", value |-> v]

Throw(e) == [kind |-> "throw", error |-> e]

\* new Error(`Content entry not found: collection="..", id="..", locale=".."`)
ContentNotFoundLastSlug(collection, id, code) ==
    [name |-> "Error", message |-> "Content entry not found",
     collection |-> collection,
     id |-> IF code = "es" THEN LocalizedSlugOf(id) ELSE id,
     locale |-> code]

ContentNotFound(collection, id, code) ==
    [name |-> "Error", message |-> "Content entry not found",
     collection |-> collection, id |-> id, locale |-> code]

NoFrame == [fn |-> "none"]

\* The time value 0
Epoch == [day |-> 0, tod |-> 0]

----------------------------------------------------------------------------
(* The named resolvers *)

ResolverNames ==
    {"getLocalizedSkill", "getLocalizedJob", "getLocalizedAchievement",
     "getLocalizedEducation", "getLocalizedFavorite", "getLocalizedInterest"}

\* The collection each named resolver passes to getLocalizedEntry.
ResolverCollectionSlip(fn) ==
    CASE fn = "getLocalizedSkill"       -> "skills"
      [] fn = "getLocalizedJob"         -> "skills"
      [] fn = "getLocalizedAchievement" -> "achievements"
      [] fn = "getLocalizedEducation"   -> "education"
      [] fn = "getLocalizedFavorite"    -> "favorites"
      [] fn = "getLocalizedInterest"    -> "interests"

ResolverCollection(fn) ==
    CASE fn = "getLocalizedSkill"       -> "skills"
      [] fn = "getLocalizedJob"         -> "jobs"
      [] fn = "getLocalizedAchievement" -> "achievements"
      [] fn = "getLocalizedEducation"   -> "education"
      [] fn = "getLocalizedFavorite"    -> "favorites"
      [] fn = "getLocalizedInterest"    -> "interests"

----------------------------------------------------------------------------
(* getLocalizedEntry run from entry to exit with nothing interleaved: what  *)
(* the call settles to, as a function of the render's context, the          *)
(* collection, the id and the store.                                        *)

\* context.locale.code === 'es'
IsSpanishTag(context) == context.locale.code = "es-ES"

IsSpanish(context) == context.locale.code = "es"

GetLocalizedEntry(r, collection, id) ==
    LET got == GetGlobalContext(r)
        context == got.value
    IN  IF got.threw THEN Throw(got.error)
        ELSE LET esEntry == IF IsSpanish(context)
                            THEN GetEntry(collection, LocalizedSlugOf(id))
                            ELSE Undefined
                 baseEntry == GetEntry(collection, id)
             IN  IF IsSpanish(context) /\ LookupThrows(collection, LocalizedSlugOf(id))
                 THEN Throw(StoreUnavailable(collection, LocalizedSlugOf(id)))
                 ELSE IF esEntry # Undefined THEN Return(esEntry)
                 ELSE IF LookupThrows(collection, id)
                 THEN Throw(StoreUnavailable(collection, id))
                 ELSE IF baseEntry = Undefined
                 THEN Throw(ContentNotFound(collection, id, context.locale.code))
                 ELSE Return(baseEntry)

----------------------------------------------------------------------------
(* getLocalizedEntry, as a step machine *)

\* Lines 29-34 and 42-43: from the context read to the first await, `got`
\* being what getGlobalContext gave.
EnterWith(r, fn, collection, id, got) ==
    LET context == got.value
        fr == [fn |-> fn, collection |-> collection, id |-> id, context |-> context]
    IN  /\ pc[r] = "idle"
        /\ frame' = [frame EXCEPT ![r] = fr]
        /\ IF got.threw
           THEN /\ pc' = [pc EXCEPT ![r] = "Failed"]
                /\ outcome' = [outcome EXCEPT ![r] = Throw(got.error)]
                /\ queries' = [queries EXCEPT ![r] = <<>>]
           ELSE IF IsSpanish(context)
           THEN /\ pc' = [pc EXCEPT ![r] = "AttemptLocalized"]
                /\ queries' = [queries EXCEPT ![r] =
                                  << <<collection, LocalizedSlugOf(id)>> >>]
                /\ UNCHANGED outcome
           ELSE /\ pc' = [pc EXCEPT ![r] = "AttemptBase"]
                /\ queries' = [queries EXCEPT ![r] = << <<collection, id>> >>]
                /\ UNCHANGED outcome
        /\ UNCHANGED <<store, failing, tz, live, ctx, dateObj>>

GetLocalizedEntry_EnterDefaulting(r, fn, collection, id) ==
    LET got == GetGlobalContext(r)
    IN  EnterWith(r, fn, collection, id,
                  IF got.threw
                  THEN [threw |-> FALSE, error |-> got.error,
                        value |-> RenderContext(PrimaryLocale)]
                  ELSE got)

\* Lines 24-43: entry of the call up to its first await.
GetLocalizedEntry_Enter(r, fn, collection, id) ==
    EnterWith(r, fn, collection, id, GetGlobalContext(r))

\* Lines 86-178: a named resolver applies getLocalizedEntry to its collection.
CallResolver(r) ==
    \E fn \in ResolverNames, id \in Ids :
        /\ r \in live
        /\ GetLocalizedEntry_Enter(r, fn, ResolverCollection(fn), id)

ResumeLocalizedNoFallback(r) ==
    /\ r \in live
    /\ pc[r] = "AttemptLocalized"
    /\ ~LookupThrows(frame[r].collection, LocalizedSlugOf(frame[r].id))
    /\ LET fr == frame[r]
           esEntry == GetEntry(fr.collection, LocalizedSlugOf(fr.id))
       IN  IF esEntry # Undefined
           THEN /\ pc' = [pc EXCEPT ![r] = "Resolved"]
                /\ outcome' = [outcome EXCEPT ![r] = Return(esEntry)]
           ELSE /\ pc' = [pc EXCEPT ![r] = "Failed"]
                /\ outcome' = [outcome EXCEPT ![r] =
                      Throw(ContentNotFound(fr.collection, fr.id, fr.context.locale.code))]
    /\ UNCHANGED <<store, failing, tz, live, ctx, frame, queries, dateObj>>

ResumeLocalizedEagerBase(r) ==
    /\ r \in live
    /\ pc[r] = "AttemptLocalized"
    /\ ~LookupThrows(frame[r].collection, LocalizedSlugOf(frame[r].id))
    /\ LET fr == frame[r]
           esEntry == GetEntry(fr.collection, LocalizedSlugOf(fr.id))
       IN  /\ queries' = [queries EXCEPT ![r] = Append(@, <<fr.collection, fr.id>>)]
           /\ IF esEntry # Undefined
              THEN /\ pc' = [pc EXCEPT ![r] = "Resolved"]
                   /\ outcome' = [outcome EXCEPT ![r] = Return(esEntry)]
              ELSE /\ pc' = [pc EXCEPT ![r] = "AttemptBase"]
                   /\ UNCHANGED outcome
    /\ UNCHANGED <<store, failing, tz, live, ctx, frame, dateObj>>

\* Lines 34-43: the localized lookup settles.
ResumeLocalized(r) ==
    /\ r \in live
    /\ pc[r] = "AttemptLocalized"
    /\ ~LookupThrows(frame[r].collection, LocalizedSlugOf(frame[r].id))
    /\ LET fr == frame[r]
           esEntry == GetEntry(fr.collection, LocalizedSlugOf(fr.id))
       IN  IF esEntry # Undefined
           THEN /\ pc' = [pc EXCEPT ![r] = "Resolved"]
                /\ outcome' = [outcome EXCEPT ![r] = Return(esEntry)]
                /\ UNCHANGED queries
           ELSE /\ pc' = [pc EXCEPT ![r] = "AttemptBase"]
                /\ queries' = [queries EXCEPT ![r] =
                                  Append(@, <<fr.collection, fr.id>>)]
                /\ UNCHANGED outcome
    /\ UNCHANGED <<store, failing, tz, live, ctx, frame, dateObj>>

ResumeBaseHardcoded(r) ==
    /\ r \in live
    /\ pc[r] = "AttemptBase"
    /\ ~LookupThrows(frame[r].collection, frame[r].id)
    /\ LET fr == frame[r]
           baseEntry == GetEntry("skills", fr.id)
       IN  IF baseEntry = Undefined
           THEN /\ pc' = [pc EXCEPT ![r] = "Failed"]
                /\ outcome' = [outcome EXCEPT ![r] =
                      Throw(ContentNotFound(fr.collection, fr.id, fr.context.locale.code))]
           ELSE /\ pc' = [pc EXCEPT ![r] = "Resolved"]
                /\ outcome' = [outcome EXCEPT ![r] = Return(baseEntry)]
    /\ UNCHANGED <<store, failing, tz, live, ctx, frame, queries, dateObj>>

ResumeBaseSharedContext(r) ==
    /\ r \in live
    /\ pc[r] = "AttemptBase"
    /\ ~LookupThrows(frame[r].collection, frame[r].id)
    /\ LET fr == frame[r]
           baseEntry == GetEntry(fr.collection, fr.id)
       IN  IF baseEntry = Undefined
           THEN \E q \in live :
                    /\ frame[q].fn \in ResolverNames
                    /\ ctx[q] # NoContext
                    /\ pc' = [pc EXCEPT ![r] = "Failed"]
                    /\ outcome' = [outcome EXCEPT ![r] =
                          Throw(ContentNotFound(fr.collection, fr.id, ctx[q].locale.code))]
           ELSE /\ pc' = [pc EXCEPT ![r] = "Resolved"]
                /\ outcome' = [outcome EXCEPT ![r] = Return(baseEntry)]
    /\ UNCHANGED <<store, failing, tz, live, ctx, frame, queries, dateObj>>

ResumeBaseReverseFallback(r) ==
    /\ r \in live
    /\ pc[r] = "AttemptBase"
    /\ ~LookupThrows(frame[r].collection, frame[r].id)
    /\ LET fr == frame[r]
           baseEntry == GetEntry(fr.collection, fr.id)
           esEntry == GetEntry(fr.collection, LocalizedSlugOf(fr.id))
       IN  IF baseEntry # Undefined
           THEN /\ pc' = [pc EXCEPT ![r] = "Resolved"]
                /\ outcome' = [outcome EXCEPT ![r] = Return(baseEntry)]
                /\ UNCHANGED queries
           ELSE IF esEntry # Undefined
           THEN /\ pc' = [pc EXCEPT ![r] = "Resolved"]
                /\ outcome' = [outcome EXCEPT ![r] = Return(esEntry)]
                /\ queries' = [queries EXCEPT ![r] =
                                  Append(@, <<fr.collection, LocalizedSlugOf(fr.id)>>)]
           ELSE /\ pc' = [pc EXCEPT ![r] = "Failed"]
                /\ outcome' = [outcome EXCEPT ![r] =
                      Throw(ContentNotFound(fr.collection, fr.id, fr.context.locale.code))]
                /\ UNCHANGED queries
    /\ UNCHANGED <<store, failing, tz, live, ctx, frame, dateObj>>

\* Lines 43-50: the base lookup settles.
ResumeBase(r) ==
    /\ r \in live
    /\ pc[r] = "AttemptBase"
    /\ ~LookupThrows(frame[r].collection, frame[r].id)
    /\ LET fr == frame[r]
           baseEntry == GetEntry(fr.collection, fr.id)
       IN  IF baseEntry = Undefined
           THEN /\ pc' = [pc EXCEPT ![r] = "Failed"]
                /\ outcome' = [outcome EXCEPT ![r] =
                      Throw(ContentNotFound(fr.collection, fr.id, fr.context.locale.code))]
           ELSE /\ pc' = [pc EXCEPT ![r] = "Resolved"]
                /\ outcome' = [outcome EXCEPT ![r] = Return(baseEntry)]
    /\ UNCHANGED <<store, failing, tz, live, ctx, frame, queries, dateObj>>

LocalizedLookupThrowsCaught(r) ==
    /\ r \in live
    /\ pc[r] = "AttemptLocalized"
    /\ LookupThrows(frame[r].collection, LocalizedSlugOf(frame[r].id))
    /\ pc' = [pc EXCEPT ![r] = "AttemptBase"]
    /\ queries' = [queries EXCEPT ![r] =
                      Append(@, <<frame[r].collection, frame[r].id>>)]
    /\ UNCHANGED <<store, failing, tz, live, ctx, frame, dateObj, outcome>>

\* Line 34: the awaited localized lookup rejects; nothing catches it, so the
\* call rejects with the store's error.
LocalizedLookupThrows(r) ==
    /\ r \in live
    /\ pc[r] = "AttemptLocalized"
    /\ LookupThrows(frame[r].collection, LocalizedSlugOf(frame[r].id))
    /\ pc' = [pc EXCEPT ![r] = "Failed"]
    /\ outcome' = [outcome EXCEPT ![r] =
          Throw(StoreUnavailable(frame[r].collection, LocalizedSlugOf(frame[r].id)))]
    /\ UNCHANGED <<store, failing, tz, live, ctx, frame, queries, dateObj>>

\* Line 43: the awaited base lookup rejects; the call rejects with that error.
BaseLookupThrows(r) ==
    /\ r \in live
    /\ pc[r] = "AttemptBase"
    /\ LookupThrows(frame[r].collection, frame[r].id)
    /\ pc' = [pc EXCEPT ![r] = "Failed"]
    /\ outcome' = [outcome EXCEPT ![r] =
          Throw(StoreUnavailable(frame[r].collection, frame[r].id))]
    /\ UNCHANGED <<store, failing, tz, live, ctx, frame, queries, dateObj>>

\* The caller takes the result; the render is ready for its next call.
Finish(r) ==
    /\ r \in live
    /\ pc[r] \in {"Resolved", "Failed", "Formatted"}
    /\ pc' = [pc EXCEPT ![r] = "idle"]
    /\ frame' = [frame EXCEPT ![r] = NoFrame]
    /\ queries' = [queries EXCEPT ![r] = <<>>]
    /\ outcome' = [outcome EXCEPT ![r] = None]
    /\ dateObj' = [dateObj EXCEPT ![r] = Epoch]
    /\ UNCHANGED <<store, failing, tz, live, ctx>>


----------------------------------------------------------------------------
(* Dates.  A Date holds a time value t in milliseconds since the epoch; it  *)
(* is kept as the pair Day(t) = floor(t / msPerDay), TimeWithinDay(t) =     *)
(* t mod msPerDay of ECMAScript, which keeps every number below 2^31.       *)

MsPerSecond == 1000
MsPerMinute == 60000
MsPerHour == 3600000
MsPerDay == 86400000

Date(day, tod) == [day |-> day, tod |-> tod]

\* t + delta milliseconds
AddMs(t, delta) ==
    LET total == t.tod + delta
    IN  Date(t.day + (total \div MsPerDay), total % MsPerDay)

\* Day number of the proleptic Gregorian date y-m-d (m in 1..12).
DaysFromCivil(y, m, d) ==
    LET y1 == IF m <= 2 THEN y - 1 ELSE y
        era == y1 \div 400
        yoe == y1 - era * 400
        mp == IF m > 2 THEN m - 3 ELSE m + 9
        doy == (153 * mp + 2) \div 5 + d - 1
        doe == yoe * 365 + yoe \div 4 - yoe \div 100 + doy
    IN  era * 146097 + doe - 719468

\* YearFromTime, MonthFromTime (0-based) and DateFromTime of a day number.
CivilFromDays(z) ==
    LET z1 == z + 719468
        era == z1 \div 146097
        doe == z1 - era * 146097
        yoe == (doe - doe \div 1460 + doe \div 36524 - doe \div 146096) \div 365
        doy == doe - (365 * yoe + yoe \div 4 - yoe \div 100)
        mp == (5 * doy + 2) \div 153
        d == doy - (153 * mp + 2) \div 5 + 1
        m == IF mp < 10 THEN mp + 3 ELSE mp - 9
        y == yoe + era * 400 + (IF m <= 2 THEN 1 ELSE 0)
    IN  [year |-> y, month |-> m - 1, date |-> d]

\* The UTC getters of Date
GetUTCFullYear(t) == CivilFromDays(t.day).year
GetUTCMonth(t) == CivilFromDays(t.day).month
GetUTCDate(t) == CivilFromDays(t.day).date
GetUTCHours(t) == t.tod \div MsPerHour
GetUTCMinutes(t) == (t.tod \div MsPerMinute) % 60
GetUTCSeconds(t) == (t.tod \div MsPerSecond) % 60
GetUTCMilliseconds(t) == t.tod % MsPerSecond

\* LocalTime(t) = t + LocalTZA, for a host whose offset from UTC is tz minutes
LocalTime(t) == AddMs(t, tz * MsPerMinute)

\* UTC(t) = t - LocalTZA
UTCOfLocal(t) == AddMs(t, 0 - tz * MsPerMinute)

\* The local-time getters of Date
GetFullYear(t) == GetUTCFullYear(LocalTime(t))
GetMonth(t) == GetUTCMonth(LocalTime(t))
GetDate(t) == GetUTCDate(LocalTime(t))

\* MakeDay(year, month, date) of ECMAScript
MakeDay(year, month, dt) ==
    DaysFromCivil(year + (month \div 12), (month % 12) + 1, 1) + dt - 1

\* new Date(year, monthIndex, day): local midnight of that day.  A year in
\* 0..99 denotes 1900 + year.
NewDate(year, month, dt) ==
    LET yr == IF 0 <= year /\ year <= 99 THEN 1900 + year ELSE year
    IN  UTCOfLocal(Date(MakeDay(yr, month, dt), 0))

IsMidnightUtcNoMs(date) ==
    /\ GetUTCHours(date) = 0
    /\ GetUTCMinutes(date) = 0
    /\ GetUTCSeconds(date) = 0

\* isMidnightUtc(date)
IsMidnightUtc(date) ==
    /\ GetUTCHours(date) = 0
    /\ GetUTCMinutes(date) = 0
    /\ GetUTCSeconds(date) = 0
    /\ GetUTCMilliseconds(date) = 0

NormalizeDateOnlyToLocalInPlace(date) ==
    IF ~IsMidnightUtc(date)
    THEN [result |-> date, input |-> date]
    ELSE LET local == NewDate(GetUTCFullYear(date), GetUTCMonth(date), GetUTCDate(date))
         IN  [result |-> local, input |-> local]

\* normalizeDateOnlyToLocal(date): `result` is the Date it returns, `input`
\* the time value its argument holds afterwards.
NormalizeDateOnlyToLocal(date) ==
    IF ~IsMidnightUtc(date)
    THEN [result |-> date, input |-> date]
    ELSE [result |-> NewDate(GetUTCFullYear(date), GetUTCMonth(date), GetUTCDate(date)),
          input |-> date]

\* format(date, pattern, {locale}) of date-fns: the pattern's tokens, each
\* rendered from the local-time fields of the date.
Pad2(n) == IF n < 10 THEN "0" \o ToString(n) ELSE ToString(n)

Pad4(n) ==
    IF n < 0 THEN "-" \o ToString(0 - n)
    ELSE IF n < 10 THEN "000" \o ToString(n)
    ELSE IF n < 100 THEN "00" \o ToString(n)
    ELSE IF n < 1000 THEN "0" \o ToString(n)
    ELSE ToString(n)

MonthAbbr(code, month) ==
    IF code = "es"
    THEN <<"ene", "feb", "mar", "abr", "may", "jun",
           "jul", "ago", "sep", "oct", "nov", "dic">>[month + 1]
    ELSE <<"Jan", "Feb", "Mar", "Apr", "May", "Jun",
           "Jul", "Aug", "Sep", "Oct", "Nov", "Dec">>[month + 1]

FormatToken(date, token, locale) ==
    CASE token = "dd"   -> Pad2(GetDate(date))
      [] token = "d"    -> ToString(GetDate(date))
      [] token = "MM"   -> Pad2(GetMonth(date) + 1)
      [] token = "MMM"  -> MonthAbbr(locale.code, GetMonth(date))
      [] token = "yyyy" -> Pad4(GetFullYear(date))
      [] OTHER          -> token

RECURSIVE Format(_, _, _)
Format(date, pattern, locale) ==
    IF pattern = <<>> THEN ""
    ELSE FormatToken(date, Head(pattern), locale) \o Format(date, Tail(pattern), locale)

\* Dates handed to formatDate
DateDays ==
    { DaysFromCivil(2024, 3, 15), DaysFromCivil(2024, 1, 1), DaysFromCivil(2024, 3, 1),
      DaysFromCivil(1970, 1, 1), DaysFromCivil(50, 3, 15) }

TimesOfDay ==
    { 0, 1, MsPerSecond, MsPerMinute, MsPerHour,
      14 * MsPerHour + 30 * MsPerMinute, MsPerDay - 1 }

Dates == { Date(d, t) : d \in DateDays, t \in TimesOfDay }

\* Host timezones, as minutes east of UTC
TimeZones == { 0 - 720, 0 - 300, 0, 330, 840 }

\* formatDate(date, astro)
FormatDate(r) ==
    \E date \in Dates :
        LET got == GetGlobalContext(r)
            context == got.value
        IN  /\ r \in live
            /\ pc[r] = "idle"
            /\ queries' = [queries EXCEPT ![r] = <<>>]
            /\ IF got.threw
               THEN /\ pc' = [pc EXCEPT ![r] = "Failed"]
                    /\ frame' = [frame EXCEPT ![r] =
                          [fn |-> "formatDate", date |-> date, passed |-> date,
                           context |-> context]]
                    /\ dateObj' = [dateObj EXCEPT ![r] = date]
                    /\ outcome' = [outcome EXCEPT ![r] = Throw(got.error)]
               ELSE LET n == NormalizeDateOnlyToLocal(date)
                    IN  /\ pc' = [pc EXCEPT ![r] = "Formatted"]
                        /\ frame' = [frame EXCEPT ![r] =
                              [fn |-> "formatDate", date |-> date, passed |-> n.result,
                               context |-> context]]
                        /\ dateObj' = [dateObj EXCEPT ![r] = n.input]
                        /\ outcome' = [outcome EXCEPT ![r] =
                              Return(Format(n.result, context.dateFormat, context.locale))]
            /\ UNCHANGED <<store, failing, tz, live, ctx>>

----------------------------------------------------------------------------

InitRenders ==
    /\ pc = [r \in Renders |-> "idle"]
    /\ frame = [r \in Renders |-> NoFrame]
    /\ queries = [r \in Renders |-> <<>>]
    /\ outcome = [r \in Renders |-> None]
    /\ dateObj = [r \in Renders |-> Epoch]

\* One render at a time: every store, every host timezone.
Init ==
    /\ store \in Stores
    /\ failing = {}
    /\ tz \in TimeZones
    /\ live = {1}
    /\ ctx \in [Renders -> Contexts \cup {NoContext}]
    /\ \A r \in Renders \ live : ctx[r] = NoContext
    /\ InitRenders

Next ==
    \E r \in Renders :
        \/ CallResolver(r)
        \/ ResumeLocalized(r)
        \/ ResumeBase(r)
        \/ FormatDate(r)
        \/ Finish(r)

Spec == Init /\ [][Next]_vars

\* Several renders at once, each with its own RenderContext, resolving
\* entries against one store.
StoresConc == { [c \in LocalizableCollection |-> s] : s \in SUBSET Slugs }

InitConc ==
    /\ store \in StoresConc
    /\ failing = {}
    /\ tz = 0
    /\ live = Renders
    /\ ctx \in [Renders -> Contexts \cup {NoContext}]
    /\ InitRenders

NextConc ==
    \E r \in Renders :
        \/ CallResolver(r)
        \/ ResumeLocalized(r)
        \/ ResumeBase(r)
        \/ Finish(r)

SpecConc == InitConc /\ [][NextConc]_vars

\* One render resolving entries against a store that fails to load some
\* slugs: a lookup of such a slug throws.
InitFail ==
    /\ store \in StoresConc
    /\ failing \in SUBSET Slugs
    /\ tz = 0
    /\ live = {1}
    /\ ctx \in [Renders -> Contexts \cup {NoContext}]
    /\ \A r \in Renders \ live : ctx[r] = NoContext
    /\ InitRenders

NextFail ==
    \E r \in Renders :
        \/ CallResolver(r)
        \/ ResumeLocalized(r)
        \/ LocalizedLookupThrows(r)
        \/ ResumeBase(r)
        \/ BaseLookupThrows(r)
        \/ Finish(r)

SpecFail == InitFail /\ [][NextFail]_vars

----------------------------------------------------------------------------
(* Properties *)

\* A render whose current call is a named resolver
Resolving(r) == r \in live /\ frame[r].fn \in ResolverNames

\* A render whose current call is a named resolver, made with a RenderContext
ResolvingWithContext(r) == Resolving(r) /\ ctx[r] # NoContext

HasBase(r) == frame[r].id \in store[frame[r].collection]

HasLocalized(r) == LocalizedSlugOf(frame[r].id) \in store[frame[r].collection]

ActiveLocale(r) == ctx[r].locale.code

StartsWith(s, prefix) ==
    Len(s) >= Len(prefix) /\ SubSeq(s, 1, Len(prefix)) = prefix

\* C1 - Fallback correctness: when the collection holds the base slug `id`
\* and not `id-es`, the call raises no error and, once settled, has returned
\* the base record, under locale 'es' as under the primary locale.
C1_FallbackCorrectness ==
    \A r \in Renders :
        (ResolvingWithContext(r) /\ HasBase(r) /\ ~HasLocalized(r))
            => /\ pc[r] # "Failed"
               /\ outcome[r].kind # "throw"
               /\ pc[r] = "Resolved"
                    => outcome[r] = Return(Entry(frame[r].collection, frame[r].id))

C1_Witness ==
    \E r \in Renders :
        /\ ResolvingWithContext(r) /\ HasBase(r) /\ ~HasLocalized(r)
        /\ ActiveLocale(r) = "es"
        /\ Len(queries[r]) = 2
        /\ pc[r] = "Resolved"

\* C2 - Localized override precedence: when both `id` and `id-es` exist, the
\* settled call has returned the `id-es` record under locale 'es' and the
\* `id` record under the primary locale.
C2_OverridePrecedence ==
    \A r \in Renders :
        (ResolvingWithContext(r) /\ HasBase(r) /\ HasLocalized(r)
            /\ pc[r] \in {"Resolved", "Failed"})
            => /\ ActiveLocale(r) = "es" =>
                    outcome[r] = Return(Entry(frame[r].collection,
                                              LocalizedSlugOf(frame[r].id)))
               /\ ActiveLocale(r) = PrimaryLocale =>
                    outcome[r] = Return(Entry(frame[r].collection, frame[r].id))

C2_Witness ==
    \E r \in Renders :
        /\ ResolvingWithContext(r) /\ HasBase(r) /\ HasLocalized(r)
        /\ ActiveLocale(r) = "es"
        /\ pc[r] = "Resolved"
        /\ outcome[r].value.slug = LocalizedSlugOf(frame[r].id)

\* C3 - Missing entry failure: when neither `id` nor `id-es` exists, the
\* settled call is Failed, under any locale, with the content-not-found error
\* carrying the requested collection, the requested id without suffix and
\* the active locale code; no record is returned.
C3_MissingEntryFailure ==
    \A r \in Renders :
        (ResolvingWithContext(r) /\ ~HasBase(r) /\ ~HasLocalized(r))
            => /\ pc[r] # "Resolved"
               /\ outcome[r].kind # "return"
               /\ pc[r] = "Failed" =>
                    /\ outcome[r].kind = "throw"
                    /\ outcome[r].error.message = "Content entry not found"
                    /\ outcome[r].error.collection = ResolverCollection(frame[r].fn)
                    /\ outcome[r].error.id = frame[r].id
                    /\ outcome[r].error.locale = ActiveLocale(r)

C3_Witness ==
    \E r \in Renders :
        /\ ResolvingWithContext(r) /\ ~HasBase(r) /\ ~HasLocalized(r)
        /\ ActiveLocale(r) = "es"
        /\ pc[r] = "Failed"
        /\ outcome[r].error.name = "Error"

\* C4 - Whatever record a resolver returns is the record the store holds for
\* the requested collection under slug `id` or `id-es`: its slug starts with
\* the requested id and it is in the store.
C4_NoFabrication ==
    \A r \in Renders :
        (Resolving(r) /\ outcome[r].kind = "return")
            => LET rec == outcome[r].value
                   collection == ResolverCollection(frame[r].fn)
               IN  /\ rec.kind = "entry"
                   /\ rec.slug \in {frame[r].id, LocalizedSlugOf(frame[r].id)}
                   /\ StartsWith(rec.slug, frame[r].id)
                   /\ rec.collection = collection
                   /\ rec.slug \in store[collection]
                   /\ rec = GetEntry(collection, rec.slug)

C4_Witness ==
    \E r \in Renders :
        /\ Resolving(r) /\ outcome[r].kind = "return"
        /\ frame[r].id = "typescript"
        /\ outcome[r].value.slug = "typescript-es"
        /\ "typescript-es-es" \in store[frame[r].collection]

\* A settled formatDate call that formatted a date
Formatted(r) == r \in live /\ pc[r] = "Formatted"

\* The date's UTC hour, minute, second and millisecond are all zero
UtcTimeFieldsZero(date) ==
    /\ GetUTCHours(date) = 0 /\ GetUTCMinutes(date) = 0
    /\ GetUTCSeconds(date) = 0 /\ GetUTCMilliseconds(date) = 0

\* C5 - Date-only normalization: for a date at UTC midnight and any host
\* timezone, the date formatDate formats has local year/month/day equal to
\* the UTC year/month/day of its input.
C5_DateOnlySameDay ==
    \A r \in Renders :
        (Formatted(r) /\ UtcTimeFieldsZero(frame[r].date))
            => /\ GetFullYear(frame[r].passed) = GetUTCFullYear(frame[r].date)
               /\ GetMonth(frame[r].passed) = GetUTCMonth(frame[r].date)
               /\ GetDate(frame[r].passed) = GetUTCDate(frame[r].date)

\* C6 - Instant passthrough: a date with a non-zero UTC hour, minute, second
\* or millisecond is handed to the formatter as the same instant, and the
\* string is that instant rendered in the host timezone.
C6_InstantPassthrough ==
    \A r \in Renders :
        (Formatted(r) /\ ~UtcTimeFieldsZero(frame[r].date))
            => /\ frame[r].passed = frame[r].date
               /\ outcome[r] = Return(Format(frame[r].date, ctx[r].dateFormat,
                                             ctx[r].locale))

C6_Witness ==
    \E r \in Renders :
        /\ Formatted(r)
        /\ frame[r].date.tod = 1
        /\ tz = 0 - 300
        /\ outcome[r].kind = "return"

\* The collection the contract names for each resolver
NamedCollection(fn) ==
    CASE fn = "getLocalizedSkill"       -> "skills"
      [] fn = "getLocalizedJob"         -> "jobs"
      [] fn = "getLocalizedAchievement" -> "achievements"
      [] fn = "getLocalizedEducation"   -> "education"
      [] fn = "getLocalizedFavorite"    -> "favorites"
      [] fn = "getLocalizedInterest"    -> "interests"

\* C7 - Each named resolver is the generic resolution applied to its own
\* collection: every lookup it issues is in that collection, and it settles
\* to what getLocalizedEntry yields for that collection and id.
C7_NamedResolvers ==
    \A r \in Renders :
        Resolving(r)
            => /\ \A i \in 1..Len(queries[r]) :
                    queries[r][i][1] = NamedCollection(frame[r].fn)
               /\ pc[r] \in {"Resolved", "Failed"} =>
                    outcome[r] = GetLocalizedEntry(r, NamedCollection(frame[r].fn),
                                                   frame[r].id)

C7_Witness ==
    \E r \in Renders :
        /\ Resolving(r)
        /\ frame[r].fn = "getLocalizedJob"
        /\ pc[r] = "Resolved"
        /\ "typescript" \in store["jobs"]
        /\ "typescript" \notin store["skills"]

\* C8 - Concurrent renders: whatever the interleaving at the awaited lookups,
\* each render settles to the result it gets running alone, a function of
\* its own context, the collection, the id and the store.
C8_RenderIsolation ==
    \A r \in Renders :
        (Resolving(r) /\ pc[r] \in {"Resolved", "Failed"})
            => outcome[r] = GetLocalizedEntry(r, frame[r].collection, frame[r].id)

C8_Witness ==
    \E r1 \in Renders, r2 \in Renders :
        /\ ctx[r1] # NoContext /\ ctx[r2] # NoContext
        /\ Resolving(r1) /\ Resolving(r2)
        /\ ActiveLocale(r1) = "es" /\ ActiveLocale(r2) = PrimaryLocale
        /\ frame[r1].fn = frame[r2].fn /\ frame[r1].id = frame[r2].id
        /\ Len(queries[r1]) = 2
        /\ pc[r1] = "Failed" /\ pc[r2] = "AttemptBase"

\* C9 - Without an initialized RenderContext a call fails with the
\* configuration error: it issues no store lookup and returns nothing.
C9_ConfigurationError ==
    \A r \in Renders :
        (r \in live /\ ctx[r] = NoContext /\ frame[r] # NoFrame)
            => /\ pc[r] = "Failed"
               /\ outcome[r] = Throw(ConfigurationError)
               /\ queries[r] = <<>>

C9_Witness ==
    \E r \in Renders :
        /\ r \in live /\ ctx[r] = NoContext
        /\ frame[r].fn = "getLocalizedSkill"
        /\ pc[r] = "Failed"

\* C10 - formatDate leaves its input date at the instant it held before the
\* call, when a new date is built for formatting as when it is passed through.
C10_InputNotMutated ==
    \A r \in Renders :
        (r \in live /\ frame[r].fn = "formatDate")
            => dateObj[r] = frame[r].date

C10_Witness ==
    \E r \in Renders :
        /\ Formatted(r)
        /\ UtcTimeFieldsZero(frame[r].date)
        /\ frame[r].passed # frame[r].date
        /\ dateObj[r] = frame[r].date

\* The two lookups a resolution can issue
LocalizedQuery(r) == <<frame[r].collection, LocalizedSlugOf(frame[r].id)>>

BaseQuery(r) == <<frame[r].collection, frame[r].id>>

\* C11 - Lookup ordering: the localized slug `id-es` is queried only under
\* locale 'es' and before any base query; the base slug is queried only when
\* the locale is not 'es' or after the localized lookup found nothing; a
\* resolution issues at most two lookups, exactly one under the primary
\* locale and exactly one (the localized one) under 'es' when `id-es` exists.
C11_LookupOrdering ==
    \A r \in Renders :
        ResolvingWithContext(r)
            => LET q == queries[r]
               IN  /\ Len(q) <= 2
                   /\ \A i \in 1..Len(q) :
                        /\ q[i] \in {LocalizedQuery(r), BaseQuery(r)}
                        /\ q[i] = LocalizedQuery(r) =>
                              ActiveLocale(r) = "es" /\ i = 1
                        /\ q[i] = BaseQuery(r) =>
                              \/ ActiveLocale(r) # "es" /\ i = 1
                              \/ /\ ActiveLocale(r) = "es" /\ i = 2
                                 /\ q[1] = LocalizedQuery(r)
                                 /\ ~HasLocalized(r)
                   /\ pc[r] = "AttemptLocalized" =>
                        ActiveLocale(r) = "es" /\ q = <<LocalizedQuery(r)>>
                   /\ pc[r] = "AttemptBase" => q[Len(q)] = BaseQuery(r)
                   /\ (pc[r] \in {"Resolved", "Failed"} /\ ActiveLocale(r) = PrimaryLocale)
                        => q = <<BaseQuery(r)>>
                   /\ (pc[r] \in {"Resolved", "Failed"} /\ ActiveLocale(r) = "es"
                          /\ HasLocalized(r))
                        => q = <<LocalizedQuery(r)>>

C11_Witness ==
    \E r \in Renders :
        /\ ResolvingWithContext(r)
        /\ ActiveLocale(r) = "es"
        /\ pc[r] = "AttemptBase"
        /\ queries[r] = <<LocalizedQuery(r), BaseQuery(r)>>
        /\ HasBase(r)

\* C12 - Store failure: a lookup that throws ends the call at once with the
\* store's error.  No lookup is issued twice; when the localized lookup
\* throws, the base lookup is never issued, even if the base record exists;
\* AttemptBase is reached under 'es' only when the localized lookup settled
\* to not-found.
C12_StoreFailurePropagates ==
    \A r \in Renders :
        ResolvingWithContext(r)
            => LET q == queries[r]
                   settled == pc[r] \in {"Resolved", "Failed"}
                   locThrows == LocalizedSlugOf(frame[r].id) \in failing
                   baseThrows == frame[r].id \in failing
               IN  /\ Len(q) <= 2
                   /\ Len(q) = 2 => q[1] # q[2]
                   /\ (ActiveLocale(r) = "es" /\ locThrows)
                        => /\ pc[r] \notin {"AttemptBase", "Resolved"}
                           /\ \A i \in 1..Len(q) : q[i] # BaseQuery(r)
                           /\ settled =>
                                /\ q = <<LocalizedQuery(r)>>
                                /\ outcome[r] = Throw(StoreUnavailable(
                                      frame[r].collection, LocalizedSlugOf(frame[r].id)))
                   /\ (ActiveLocale(r) = "es" /\ pc[r] = "AttemptBase")
                        => ~locThrows /\ ~HasLocalized(r)
                   /\ (settled /\ baseThrows /\ q[Len(q)] = BaseQuery(r))
                        => outcome[r] = Throw(StoreUnavailable(
                              frame[r].collection, frame[r].id))

C12_Witness ==
    \E r \in Renders :
        /\ ResolvingWithContext(r)
        /\ ActiveLocale(r) = "es"
        /\ LocalizedSlugOf(frame[r].id) \in failing
        /\ HasBase(r) /\ frame[r].id \notin failing
        /\ pc[r] = "Failed"
        /\ outcome[r].error.name = "StoreError"

\* C13 - The fallback is one-directional: when the collection holds `id-es`
\* and not `id`, resolving under the primary locale never queries the
\* `id-es` slug, never returns a record and ends Failed with the
\* content-not-found error; resolving under 'es' returns the `id-es` record.
C13_OneDirectionalFallback ==
    \A r \in Renders :
        (ResolvingWithContext(r) /\ HasLocalized(r) /\ ~HasBase(r))
            => /\ ActiveLocale(r) = PrimaryLocale =>
                    /\ pc[r] # "Resolved"
                    /\ outcome[r].kind # "return"
                    /\ \A i \in 1..Len(queries[r]) :
                          queries[r][i][2] # LocalizedSlugOf(frame[r].id)
                    /\ pc[r] = "Failed" =>
                          /\ outcome[r].kind = "throw"
                          /\ outcome[r].error.message = "Content entry not found"
                          /\ outcome[r].error.collection = frame[r].collection
                          /\ outcome[r].error.id = frame[r].id
                          /\ outcome[r].error.locale = PrimaryLocale
               /\ (ActiveLocale(r) = "es" /\ pc[r] \in {"Resolved", "Failed"}) =>
                    outcome[r] = Return(Entry(frame[r].collection,
                                              LocalizedSlugOf(frame[r].id)))

C13_Witness ==
    \E r \in Renders :
        /\ ResolvingWithContext(r) /\ HasLocalized(r) /\ ~HasBase(r)
        /\ ActiveLocale(r) = PrimaryLocale
        /\ pc[r] = "Failed"
        /\ queries[r] = <<BaseQuery(r)>>

====
